---- MODULE Spec2Model ----
(***************************************************************************)
(* Model of the binder-design pipeline of src/protein_design.py: the       *)
(* Structure_Prediction object (its per-design result records, the AF2     *)
(* stdout parser, the Rosetta score-file parser and the threshold filter)  *)
(* and the stage wrappers driven by the __main__ block.                    *)
(*                                                                         *)
(* Python values are modelled as follows.  A dict is a function whose      *)
(* DOMAIN is its key set.  self.results, a dict that iterates in insertion *)
(* order, is a sequence of [key, val] entries in insertion order.  Floats  *)
(* are the integer-valued ones.  A text line is the sequence of its        *)
(* whitespace-separated tokens (what str.split() returns) and a token is   *)
(* the sequence of its characters.  None is the string "None".  An         *)
(* exception that leaves a method is recorded by name in exc.              *)
(***************************************************************************)
EXTENDS Integers, Sequences, FiniteSets, TLC

VARIABLES
    design_num,   \* self.design_num
    results,      \* self.results
    lastOp,       \* the method that ran last
    exc,          \* the exception that left that call, or None
    tool,         \* that call's external process: "none" (not started), "ok", "failed",
                  \* "timeout", "detached" (left running)
    invoked,      \* the stages whose external process has been started
    running,      \* the external processes started and not yet exited
    pc,           \* the statement of the __main__ block to run next
    filter_log,   \* what filter_designs logged: count, rate and ids
    stdout,       \* environment: the text the predictor prints when it succeeds
    score_out,    \* environment: the score file the scorer leaves when it succeeds
    faults,       \* environment: the operations that fail, as <<stage, operation>>
    temp_exists,  \* file system: the scratch directory temp_dir exists
    score_exists, \* file system: score.sc exists
    pdb_exists,   \* file system: the scorer's output PDB exists
    index,        \* ddg: its argument
    ddg_value     \* ddg: its local ddg_value, <<>> for None

objvars == <<design_num, results>>

\* the environment's inputs, fixed through a run
envvars == <<stdout, score_out, faults>>

\* the files
fsvars == <<temp_exists, score_exists, pdb_exists>>

\* the locals of ddg
ddgvars == <<index, ddg_value>>

vars == <<design_num, results, lastOp, exc, tool, invoked, running, pc, filter_log, stdout, score_out,
          faults, temp_exists, score_exists, pdb_exists, index, ddg_value>>

None == "None"

(***************************************************************************)
(* Bounds of the model.                                                    *)
(***************************************************************************)
MaxDesigns == 2

(***************************************************************************)
(* Python dicts.                                                           *)
(***************************************************************************)
EmptyDict == [k \in {} |-> 0]

\* d[k] = v on a dict d
DictSet(d, k, v) == [x \in DOMAIN d \cup {k} |-> IF x = k THEN v ELSE d[x]]

\* the position of key k in the ordered dict res, 0 when k is no key of it
KeyPos(res, k) ==
    IF \E i \in 1..Len(res) : res[i].key = k
    THEN CHOOSE i \in 1..Len(res) : res[i].key = k
    ELSE 0

HasKey(res, k) == KeyPos(res, k) # 0

GetItem(res, k) == res[KeyPos(res, k)].val

\* res[k][field] = v, for a key k that res holds
SetField(res, k, field, v) ==
    [res EXCEPT ![KeyPos(res, k)].val = DictSet(@, field, v)]

\* f"design_{index}"
DesignKey(idx) == "design_" \o ToString(idx)

(***************************************************************************)
(* Structure_Prediction.__init__ and results_dict: one empty record per    *)
(* index of range(design_num), inserted in index order.                    *)
(***************************************************************************)
results_dict(n) == [i \in 1..n |-> [key |-> DesignKey(i - 1), val |-> EmptyDict]]

(***************************************************************************)
(* filter_designs.                                                         *)
(***************************************************************************)
PlddtMin == 80
PaeMax == 10
RmsdMax == 1
DdgMax == -40

\* filter_try with the ddg threshold compared by <= instead of <
filter_try_ddg_le(r) ==
    IF "plddt_binder" \notin DOMAIN r THEN "KeyError"
    ELSE IF ~(r["plddt_binder"] > PlddtMin) THEN "skip"
    ELSE IF "pae_interaction" \notin DOMAIN r THEN "KeyError"
    ELSE IF ~(r["pae_interaction"] < PaeMax) THEN "skip"
    ELSE IF "binder_aligned_rmsd" \notin DOMAIN r THEN "KeyError"
    ELSE IF ~(r["binder_aligned_rmsd"] < RmsdMax) THEN "skip"
    ELSE IF "ddg" \in DOMAIN r /\ r["ddg"] <= DdgMax THEN "append"
    ELSE IF "ddg" \notin DOMAIN r THEN "append"
    ELSE "skip"

\* The body of the try block for one record r: "append" when the design is
\* counted, "skip" when no branch is taken, "KeyError" when a subscript of a
\* missing key raises.  The `and` chain evaluates left to right and stops at
\* the first false operand.
filter_try(r) ==
    IF "plddt_binder" \notin DOMAIN r THEN "KeyError"
    ELSE IF ~(r["plddt_binder"] > PlddtMin) THEN "skip"
    ELSE IF "pae_interaction" \notin DOMAIN r THEN "KeyError"
    ELSE IF ~(r["pae_interaction"] < PaeMax) THEN "skip"
    ELSE IF "binder_aligned_rmsd" \notin DOMAIN r THEN "KeyError"
    ELSE IF ~(r["binder_aligned_rmsd"] < RmsdMax) THEN "skip"
    ELSE IF "ddg" \in DOMAIN r /\ r["ddg"] < DdgMax THEN "append"
    ELSE IF "ddg" \notin DOMAIN r THEN "append"
    ELSE "skip"

\* a handler that lets the exception go on
filter_except_raise(e) == "raise"

\* except Exception: continue
filter_except(e) == "continue"

\* filter_loop with design_id.insert(0, design) for design_id.append(design)
RECURSIVE filter_loop_insert(_, _, _, _)
filter_loop_insert(res, i, num_designs, design_id) ==
    IF i > Len(res)
    THEN [num_designs |-> num_designs, design_id |-> design_id, raised |-> None]
    ELSE LET design == res[i].key
             t == filter_try(res[i].val)
         IN IF t = "append"
            THEN filter_loop_insert(res, i + 1, num_designs + 1, <<design>> \o design_id)
            ELSE IF t = "skip" \/ filter_except(t) = "continue"
            THEN filter_loop_insert(res, i + 1, num_designs, design_id)
            ELSE [num_designs |-> num_designs, design_id |-> design_id, raised |-> t]

\* The for loop over self.results.keys(), from position i on, with the
\* locals num_designs and design_id.  raised is the exception that left the
\* loop, None when it ran to its end.
RECURSIVE filter_loop(_, _, _, _)
filter_loop(res, i, num_designs, design_id) ==
    IF i > Len(res)
    THEN [num_designs |-> num_designs, design_id |-> design_id, raised |-> None]
    ELSE LET design == res[i].key
             t == filter_try(res[i].val)
         IN IF t = "append"
            THEN filter_loop(res, i + 1, num_designs + 1, Append(design_id, design))
            ELSE IF t = "skip" \/ filter_except(t) = "continue"
            THEN filter_loop(res, i + 1, num_designs, design_id)
            ELSE [num_designs |-> num_designs, design_id |-> design_id, raised |-> t]

\* num_designs = 0; design_id = []
filter_start == [num_designs |-> 0, design_id |-> <<>>]

\* The logged message: the count, the rate "{num_designs}/{self.design_num}"
\* as the pair of its numerator and denominator, and the id list.
filter_message(out, n) ==
    [logged |-> TRUE,
     num_designs |-> out.num_designs,
     rate |-> <<out.num_designs, n>>,
     design_id |-> out.design_id]

\* nothing was logged
NoLog == [logged |-> FALSE, num_designs |-> 0, rate |-> <<0, 0>>, design_id |-> <<>>]

\* filter_designs that also drops the records it did not select
filter_designs_prune ==
    LET out == filter_loop(results, 1, filter_start.num_designs, filter_start.design_id)
    IN /\ lastOp' = "filter_designs"
       /\ exc' = out.raised
       /\ filter_log' = IF out.raised = None THEN filter_message(out, design_num) ELSE NoLog
       /\ results' = SelectSeq(results, LAMBDA e : filter_try(e.val) = "append")
       /\ tool' = "none"
       /\ index' = 0
       /\ ddg_value' = <<>>
       /\ UNCHANGED <<design_num, invoked, running, envvars, fsvars>>

filter_designs ==
    LET out == filter_loop(results, 1, filter_start.num_designs, filter_start.design_id)
    IN /\ lastOp' = "filter_designs"
       /\ exc' = out.raised
       /\ filter_log' = IF out.raised = None THEN filter_message(out, design_num) ELSE NoLog
       /\ tool' = "none"
       /\ index' = 0
       /\ ddg_value' = <<>>
       /\ UNCHANGED <<objvars, invoked, running, envvars, fsvars>>

(***************************************************************************)
(* af2_initial_guess.                                                      *)
(*                                                                         *)
(* A line of the predictor's stdout, after strip(), is a record            *)
(*   ids  : the matches of the pattern design_\d+ in the line, left to     *)
(*          right;                                                         *)
(*   kind : "dict" when the line starts with { and ends with } and eval    *)
(*          gives the dict val; "bad" when it starts with { and ends with  *)
(*          } and eval raises; "text" otherwise.                           *)
(***************************************************************************)
TextLine(ids) == [ids |-> ids, kind |-> "text", val |-> EmptyDict]
DictLine(ids, d) == [ids |-> ids, kind |-> "dict", val |-> d]
BadDictLine == [ids |-> <<>>, kind |-> "bad", val |-> EmptyDict]

\* an unbound local, and a bound one
Unbound == <<>>
Bound(v) == <<v>>

\* re.search taking the last match of the line
re_search_last(line) == IF line.ids = <<>> THEN Unbound ELSE Bound(line.ids[Len(line.ids)])

\* match = re.search(pattern, stripped_line); match.group(0): the first match
re_search(line) == IF line.ids = <<>> THEN Unbound ELSE Bound(line.ids[1])

\* the keys the parser copies, in the order of its three assignments
MetricKeys == <<"plddt_binder", "pae_interaction", "binder_aligned_rmsd">>

\* af2_assign on a dict that makes the record of an id it does not hold
\* (self.results.setdefault(design_number, {}))
RECURSIVE af2_assign_setdefault(_, _, _, _)
af2_assign_setdefault(res, design_number, parsed_dict, k) ==
    IF k > Len(MetricKeys) THEN [res |-> res, raised |-> None]
    ELSE LET key == MetricKeys[k]
         IN IF key \notin DOMAIN parsed_dict THEN [res |-> res, raised |-> "KeyError"]
            ELSE IF design_number = Unbound
            THEN [res |-> res, raised |-> "UnboundLocalError"]
            ELSE LET r == IF HasKey(res, design_number[1]) THEN res
                          ELSE Append(res, [key |-> design_number[1], val |-> EmptyDict])
                 IN af2_assign_setdefault(SetField(r, design_number[1], key, parsed_dict[key]),
                                          design_number, parsed_dict, k + 1)

\* The assignments self.results[design_number][key] = parsed_dict[key] from
\* the k-th key on.  Each evaluates its right-hand side first (KeyError when
\* parsed_dict lacks the key), then the target (UnboundLocalError when no id
\* line was seen, KeyError when self.results has no such record).
RECURSIVE af2_assign(_, _, _, _)
af2_assign(res, design_number, parsed_dict, k) ==
    IF k > Len(MetricKeys) THEN [res |-> res, raised |-> None]
    ELSE LET key == MetricKeys[k]
         IN IF key \notin DOMAIN parsed_dict THEN [res |-> res, raised |-> "KeyError"]
            ELSE IF design_number = Unbound
            THEN [res |-> res, raised |-> "UnboundLocalError"]
            ELSE IF ~HasKey(res, design_number[1]) THEN [res |-> res, raised |-> "KeyError"]
            ELSE af2_assign(SetField(res, design_number[1], key, parsed_dict[key]),
                            design_number, parsed_dict, k + 1)

\* The loop over result.stdout.splitlines(), from line i on, with the local
\* design_number.  raised is the exception that left the loop.
RECURSIVE af2_parse(_, _, _, _)
af2_parse(out, i, design_number, res) ==
    IF i > Len(out) THEN [res |-> res, raised |-> None]
    ELSE LET match == re_search(out[i])
             dn == IF match # Unbound THEN match ELSE design_number
         IN IF out[i].kind = "text" THEN af2_parse(out, i + 1, dn, res)
            ELSE IF out[i].kind = "bad" THEN [res |-> res, raised |-> "SyntaxError"]
            ELSE LET a == af2_assign(res, dn, out[i].val, 1)
                 IN IF a.raised # None THEN a ELSE af2_parse(out, i + 1, dn, a.res)

\* except Exception as error: logger.info(..., file=sys.stderr); sys.exit().
\* Logger.info takes no keyword file, so the call raises TypeError, which
\* replaces the handled exception; sys.exit() is not reached.
af2_except(e) == "TypeError"

\* stage_run that goes on to copy and to start the process whether or not
\* os.path.isdir(self.inputs) holds
stage_run_unchecked(stage, temp) ==
    IF temp /\ <<stage, "rmtree">> \in faults
    THEN [raised |-> "OSError", tool |-> "none", temp |-> TRUE]
    ELSE IF <<stage, "copytree">> \in faults
    THEN [raised |-> "Error", tool |-> "none", temp |-> TRUE]
    ELSE [raised |-> IF <<stage, "subprocess">> \in faults
                     THEN "CalledProcessError" ELSE None,
          tool |-> IF <<stage, "subprocess">> \in faults THEN "failed" ELSE "ok",
          temp |-> <<stage, "rmtree">> \in faults]

\* The part of a stage wrapper that stages the input files and runs the
\* external process (sequence_design 183-250, af2_initial_guess 276-358), for
\* the stage named stage: how far it gets and what it leaves behind.
\*   raised : the exception on its way out of the try statement, None when
\*            the process returned
\*   tool   : "none" when the process was not started
\*   temp   : whether temp_dir exists afterwards
stage_run(stage, temp) ==
    IF temp /\ <<stage, "rmtree">> \in faults
    THEN \* shutil.rmtree of the scratch directory of an earlier run raises
         [raised |-> "OSError", tool |-> "none", temp |-> TRUE]
    ELSE IF <<stage, "isdir">> \in faults
    THEN \* os.path.isdir(self.inputs) is false: log and sys.exit()
         [raised |-> "SystemExit", tool |-> "none", temp |-> FALSE]
    ELSE IF <<stage, "copytree">> \in faults
    THEN \* shutil.copytree raises after it created the directory
         [raised |-> "Error", tool |-> "none", temp |-> TRUE]
    ELSE \* subprocess.run, then finally: rmtree, whose OSError is logged
         [raised |-> IF <<stage, "subprocess">> \in faults
                     THEN "CalledProcessError" ELSE None,
          tool |-> IF <<stage, "subprocess">> \in faults THEN "failed" ELSE "ok",
          temp |-> <<stage, "rmtree">> \in faults]

af2_initial_guess ==
    LET run == stage_run("af2_initial_guess", temp_exists)
        p == IF run.tool = "ok"
             THEN af2_parse(stdout, 1, Unbound, results)
             ELSE [res |-> results, raised |-> run.raised]
    IN /\ lastOp' = "af2_initial_guess"
       /\ filter_log' = NoLog
       /\ index' = 0
       /\ ddg_value' = <<>>
       /\ tool' = run.tool
       /\ invoked' = IF run.tool = "none" THEN invoked ELSE invoked \cup {"af2_initial_guess"}
       /\ temp_exists' = run.temp
       /\ results' = p.res
       /\ exc' = IF run.tool = "none" THEN run.raised
                 ELSE IF p.raised = None THEN None
                 ELSE af2_except(p.raised)
       /\ UNCHANGED <<design_num, running, envvars, score_exists, pdb_exists>>

(***************************************************************************)
(* Backbone_Gen.backbone_gen and Sequence_Gen.sequence_design.             *)
(***************************************************************************)
\* The whole body is one try statement whose handler logs the exception, so
\* the method always returns.  docker.from_env() may raise before the
\* container is started; container.wait() returns whatever the exit status,
\* which is not looked at.  The input directory is mounted, never tested.
\* The container is started detached (detach=True); when container.wait()
\* raises, the handler logs and the method returns with the container still
\* running.
backbone_gen ==
    LET started == <<"backbone_gen", "docker">> \notin faults
        detached == started /\ <<"backbone_gen", "wait">> \in faults
    IN /\ lastOp' = "backbone_gen"
       /\ tool' = IF ~started THEN "none"
                  ELSE IF detached THEN "detached"
                  ELSE IF <<"backbone_gen", "nonzero">> \in faults THEN "failed"
                  ELSE "ok"
       /\ invoked' = IF started THEN invoked \cup {"backbone_gen"} ELSE invoked
       /\ running' = IF detached THEN running \cup {"backbone_gen"} ELSE running
       /\ exc' = None
       /\ filter_log' = NoLog
       /\ UNCHANGED <<objvars, envvars, fsvars, ddgvars>>

\* except Exception as error: logger.info(..., file=sys.stderr); sys.exit():
\* the logging call raises TypeError, as in af2_initial_guess
sequence_except(e) == "TypeError"

sequence_design ==
    LET run == stage_run("sequence_design", temp_exists)
    IN /\ lastOp' = "sequence_design"
       /\ tool' = run.tool
       /\ invoked' = IF run.tool = "none" THEN invoked ELSE invoked \cup {"sequence_design"}
       /\ temp_exists' = run.temp
       /\ exc' = IF run.tool = "none" \/ run.raised = None THEN run.raised
                 ELSE sequence_except(run.raised)
       /\ filter_log' = NoLog
       /\ UNCHANGED <<objvars, running, envvars, score_exists, pdb_exists, ddgvars>>

(***************************************************************************)
(* ddg.                                                                    *)
(*                                                                         *)
(* A line of the score file, after strip(), is the sequence of its         *)
(* whitespace-separated tokens, <<>> for a blank line; a token is the      *)
(* sequence of its characters.  A prefix without whitespace starts the     *)
(* line exactly when it starts the line's first token.                     *)
(***************************************************************************)
StartsWith(tok, prefix) ==
    Len(tok) >= Len(prefix) /\ SubSeq(tok, 1, Len(prefix)) = prefix

\* stripped_line.startswith(prefix)
line_startswith(line, prefix) == line # <<>> /\ StartsWith(line[1], prefix)

SCORE == <<"S", "C", "O", "R", "E", ":">>
SEQUENCE == <<"S", "E", "Q", "U", "E", "N", "C", "E", ":">>
REMARK == <<"R", "E", "M", "A", "R", "K", ":">>
DDG == <<"d", "d", "g">>

DigitChars == <<"0", "1", "2", "3", "4", "5", "6", "7", "8", "9">>
IsDigit(c) == \E i \in 1..Len(DigitChars) : DigitChars[i] = c
DigitValue(c) == (CHOOSE i \in 1..Len(DigitChars) : DigitChars[i] = c) - 1

\* the number a string of decimal digits writes
RECURSIVE Decimal(_)
Decimal(ds) ==
    IF ds = <<>> THEN 0
    ELSE 10 * Decimal(SubSeq(ds, 1, Len(ds) - 1)) + DigitValue(ds[Len(ds)])

\* float(tok) on the literals of the model: an optional sign, one or more
\* digits and optionally a point followed by zeros.  <<v>> is the value, <<>>
\* stands for ValueError.  (The input alphabet holds no literal with a
\* fraction, an exponent, inf or nan.)
float(tok) ==
    LET signed == tok # <<>> /\ tok[1] \in {"-", "+"}
        body == IF signed THEN Tail(tok) ELSE tok
        dots == {i \in 1..Len(body) : body[i] = "."}
        cut == IF dots = {} THEN Len(body) + 1 ELSE CHOOSE i \in dots : \A j \in dots : i <= j
        whole == SubSeq(body, 1, cut - 1)
        frac == SubSeq(body, cut + 1, Len(body))
    IN IF /\ whole # <<>>
          /\ \A i \in 1..Len(whole) : IsDigit(whole[i])
          /\ \A i \in 1..Len(frac) : frac[i] = "0"
       THEN <<(IF signed /\ tok[1] = "-" THEN -1 ELSE 1) * Decimal(whole)>>
       ELSE <<>>

\* for i, line in enumerate(lines): the 1-based position of the first line
\* from i on that starts with SCORE:, 0 when there is none
RECURSIVE find_header(_, _)
find_header(lines, i) ==
    IF i > Len(lines) THEN 0
    ELSE IF line_startswith(lines[i], SCORE) THEN i
    ELSE find_header(lines, i + 1)

\* find_data that stops at the first line after the header instead of the last
RECURSIVE find_data_first(_, _, _)
find_data_first(lines, i, header) ==
    LET RECURSIVE up(_)
        up(j) == IF j > Len(lines) THEN 0
                 ELSE IF /\ lines[j] # <<>>
                         /\ ~line_startswith(lines[j], SEQUENCE)
                         /\ ~line_startswith(lines[j], REMARK)
                 THEN j
                 ELSE up(j + 1)
    IN up(header + 1)

\* for i in range(len(lines) - 1, header_line_index, -1): the position of the
\* first line, going down from i to just above header, that is not blank and
\* starts with neither SEQUENCE: nor REMARK:, 0 when there is none
RECURSIVE find_data(_, _, _)
find_data(lines, i, header) ==
    IF i <= header THEN 0
    ELSE IF /\ lines[i] # <<>>
            /\ ~line_startswith(lines[i], SEQUENCE)
            /\ ~line_startswith(lines[i], REMARK)
    THEN i
    ELSE find_data(lines, i - 1, header)

\* headers.index(x): the 0-based position of the first x from position i
\* (1-based) on, -1 for ValueError
RECURSIVE list_index(_, _, _)
list_index(headers, x, i) ==
    IF i > Len(headers) THEN -1
    ELSE IF headers[i] = x THEN i - 1
    ELSE list_index(headers, x, i + 1)


\* parse_score without the test ddg_index != -1: values[-1] is the last token
parse_score_unguarded(lines) ==
    LET header == find_header(lines, 1)
        data == find_data(lines, Len(lines), header)
        ddg_index == list_index(lines[header], DDG, 1)
        values == lines[data]
        at == IF ddg_index = -1 THEN Len(values) ELSE ddg_index + 1
    IN IF header = 0 THEN [ddg_value |-> <<>>, error |-> "no header"]
       ELSE IF data = 0 THEN [ddg_value |-> <<>>, error |-> "no data line"]
       ELSE IF ~(Len(values) > ddg_index) THEN [ddg_value |-> <<>>, error |-> ""]
       ELSE IF float(values[at]) = <<>>
       THEN [ddg_value |-> <<>>, error |-> "not a number"]
       ELSE [ddg_value |-> float(values[at]), error |-> ""]

\* The parse of the lines read from the score file: ddg_value and the error
\* it printed ("" when it printed none).
parse_score(lines) ==
    LET header == find_header(lines, 1)
        data == find_data(lines, Len(lines), header)
        ddg_index == list_index(lines[header], DDG, 1)
        values == lines[data]
    IN IF header = 0 THEN [ddg_value |-> <<>>, error |-> "no header"]
       ELSE IF data = 0 THEN [ddg_value |-> <<>>, error |-> "no data line"]
       ELSE IF ddg_index = -1 THEN [ddg_value |-> <<>>, error |-> "no column"]
       ELSE IF ~(Len(values) > ddg_index) THEN [ddg_value |-> <<>>, error |-> ""]
       ELSE IF float(values[ddg_index + 1]) = <<>>
       THEN [ddg_value |-> <<>>, error |-> "not a number"]
       ELSE [ddg_value |-> float(values[ddg_index + 1]), error |-> ""]

\* the try block 409-461: a missing file raises FileNotFoundError, which the
\* except clause prints
read_score(file) ==
    IF ~file.exists THEN [ddg_value |-> <<>>, error |-> "FileNotFoundError"]
    ELSE parse_score(file.lines)

\* the key of line 487
ddg_key(idx) == "Design_" \o ToString(idx)

\* subprocess.run(command, ..., check=True, timeout=600): how the scorer
\* ended.  On expiry of the timeout subprocess.run kills the process and
\* raises TimeoutExpired; on a non-zero exit it raises CalledProcessError.
rosetta_run ==
    IF <<"ddg", "timeout">> \in faults THEN "timeout"
    ELSE IF <<"ddg", "subprocess">> \in faults THEN "failed"
    ELSE "ok"

\* rosetta_success when only CalledProcessError clears it
rosetta_success_but_failed(run) == run # "failed"

\* rosetta_success after the try statement 397-405: set only when
\* subprocess.run returned; except Exception catches both exceptions
rosetta_success(run) == run = "ok"

\* ddg_cleanup with both removals in one try statement: a failed removal of
\* the score file skips the removal of the PDB
ddg_cleanup_one_try(score, pdb) ==
    IF score /\ <<"ddg", "remove_score">> \in faults
    THEN [score |-> TRUE, pdb |-> pdb, raised |-> None]
    ELSE [score |-> FALSE, pdb |-> pdb /\ <<"ddg", "remove_pdb">> \in faults, raised |-> None]

\* The finally clause 463-483 on a score file and an output PDB that exist
\* or not: each os.remove in a try statement of its own, whose handler
\* prints.  raised is the exception that leaves the clause.
ddg_cleanup(score, pdb) ==
    [score |-> score /\ <<"ddg", "remove_score">> \in faults,
     pdb |-> pdb /\ <<"ddg", "remove_pdb">> \in faults,
     raised |-> None]

ddg(idx) ==
    LET failed == ~rosetta_success(rosetta_run)
        file == [exists |-> score_out.exists \/ score_exists, lines |-> score_out.lines]
        parsed == read_score(file)
        cleanup == ddg_cleanup(file.exists, TRUE)
    IN /\ lastOp' = "ddg"
       /\ index' = idx
       /\ filter_log' = NoLog
       /\ invoked' = invoked \cup {"ddg"}
       /\ UNCHANGED <<design_num, running, envvars, temp_exists>>
       /\ IF failed
          THEN \* subprocess.run raises (non-zero exit, or the timeout of 600 s
               \* expires); the exception is printed
               /\ tool' = rosetta_run
               /\ ddg_value' = <<>>
               /\ exc' = None
               /\ UNCHANGED <<results, score_exists, pdb_exists>>
          ELSE \* the scorer succeeds: parse, remove both files, record
               /\ tool' = rosetta_run
               /\ ddg_value' = parsed.ddg_value
               /\ score_exists' = cleanup.score
               /\ pdb_exists' = cleanup.pdb
               /\ IF cleanup.raised # None
                  THEN exc' = cleanup.raised /\ UNCHANGED results
                  ELSE IF parsed.ddg_value = <<>>
                  THEN exc' = None /\ UNCHANGED results
                  ELSE IF HasKey(results, ddg_key(idx))
                  THEN /\ results' = SetField(results, ddg_key(idx), "ddg", parsed.ddg_value[1])
                       /\ exc' = None
                  ELSE exc' = "KeyError" /\ UNCHANGED results

NoScoreFile == [exists |-> FALSE, lines |-> <<>>]

(***************************************************************************)
(* Input sets.                                                             *)
(***************************************************************************)
AllKeys == {"plddt_binder", "pae_interaction", "binder_aligned_rmsd", "ddg"}

\* values on both sides of each threshold
KeyValues(k) ==
    CASE k = "plddt_binder" -> {PlddtMin, PlddtMin + 1}
      [] k = "pae_interaction" -> {PaeMax - 1, PaeMax}
      [] k = "binder_aligned_rmsd" -> {RmsdMax - 1, RmsdMax}
      [] k = "ddg" -> {DdgMax - 1, DdgMax}

\* every record over the four metric keys with those values
Records ==
    UNION {{d \in [ks -> UNION {KeyValues(k) : k \in AllKeys}] :
                \A k \in ks : d[k] \in KeyValues(k)} : ks \in SUBSET AllKeys}

(***************************************************************************)
(* SpecFilter: filter_designs as a function of the object's state.  The    *)
(* state is drawn from every assignment of records to the design keys      *)
(* that results_dict creates.                                              *)
(***************************************************************************)
InitFilter ==
    /\ design_num \in 0..MaxDesigns
    /\ results \in {[i \in 1..design_num |-> [key |-> results_dict(design_num)[i].key, val |-> f[i]]] :
                        f \in [1..design_num -> Records]}
    /\ lastOp = "init"
    /\ exc = None
    /\ tool = "none"
    /\ invoked = {}
    /\ running = {}
    /\ pc = "caller"
    /\ filter_log = NoLog
    /\ stdout = <<>>
    /\ score_out = NoScoreFile
    /\ faults = {}
    /\ temp_exists = FALSE
    /\ score_exists = FALSE
    /\ pdb_exists = FALSE
    /\ index = 0
    /\ ddg_value = <<>>

NextFilter == filter_designs /\ UNCHANGED pc

SpecFilter == InitFilter /\ [][NextFilter]_vars

(***************************************************************************)
(* Claims about filter_designs, under SpecFilter.                          *)
(***************************************************************************)
RequiredMetrics == {"plddt_binder", "pae_interaction", "binder_aligned_rmsd"}

\* the decision rule as the specification words it
Selected(r) ==
    /\ RequiredMetrics \subseteq DOMAIN r
    /\ r["plddt_binder"] > 80
    /\ r["pae_interaction"] < 10
    /\ r["binder_aligned_rmsd"] < 1
    /\ ("ddg" \notin DOMAIN r \/ r["ddg"] < -40)

\* the three required metrics are present and pass their thresholds
MetricsPass(r) ==
    /\ RequiredMetrics \subseteq DOMAIN r
    /\ r["plddt_binder"] > 80
    /\ r["pae_interaction"] < 10
    /\ r["binder_aligned_rmsd"] < 1

InList(seq, x) == \E j \in 1..Len(seq) : seq[j] = x

\* C1: after filter_designs has run, a design is in the logged id list if and
\* only if plddt_binder > 80, pae_interaction < 10, binder_aligned_rmsd < 1 and
\* it has no ddg field or its ddg is below -40.
C1_FilterRule ==
    lastOp = "filter_designs" =>
        /\ filter_log.logged
        /\ \A i \in 1..Len(results) :
              InList(filter_log.design_id, results[i].key) <=> Selected(results[i].val)

\* One run that excludes a design whose metrics pass and whose ddg is -40 or
\* more, and includes a design whose metrics pass and that has no ddg.
C1_Witness ==
    /\ lastOp = "filter_designs"
    /\ \E i, j \in 1..Len(results) :
          /\ MetricsPass(results[i].val)
          /\ "ddg" \in DOMAIN results[i].val
          /\ results[i].val["ddg"] >= -40
          /\ ~InList(filter_log.design_id, results[i].key)
          /\ MetricsPass(results[j].val)
          /\ "ddg" \notin DOMAIN results[j].val
          /\ InList(filter_log.design_id, results[j].key)

\* C2: filter_designs raises nothing; a record that lacks one of the three
\* required metrics is excluded whatever its other values are, and every
\* record after it is still evaluated (selected when the rule selects it).
C2_MissingMetricSkipped ==
    lastOp = "filter_designs" =>
        /\ exc = None
        /\ filter_log.logged
        /\ \A i \in 1..Len(results) :
              ~(RequiredMetrics \subseteq DOMAIN results[i].val) =>
                  /\ ~InList(filter_log.design_id, results[i].key)
                  /\ \A j \in (i + 1)..Len(results) :
                        Selected(results[j].val) =>
                            InList(filter_log.design_id, results[j].key)

\* A record that lacks only binder_aligned_rmsd, with passing values for the
\* rest, is excluded and the record after it is selected.
C2_Witness ==
    /\ lastOp = "filter_designs"
    /\ exc = None
    /\ \E i, j \in 1..Len(results) :
          /\ i < j
          /\ DOMAIN results[i].val = {"plddt_binder", "pae_interaction", "ddg"}
          /\ results[i].val["plddt_binder"] > 80
          /\ results[i].val["pae_interaction"] < 10
          /\ results[i].val["ddg"] < -40
          /\ ~InList(filter_log.design_id, results[i].key)
          /\ InList(filter_log.design_id, results[j].key)

\* C3: filter_designs changes no design record and not the expected design
\* count, and a run that follows a run logs the same ids, count and rate.
C3_FilterIdempotent ==
    [][lastOp' = "filter_designs" =>
          /\ results' = results
          /\ design_num' = design_num
          /\ (lastOp = "filter_designs" => filter_log' = filter_log)]_vars

\* filter_designs has run on a design set of which it selected one record and
\* excluded another; running it again is enabled in that state.
C3_Witness ==
    /\ lastOp = "filter_designs"
    /\ filter_log.logged
    /\ filter_log.num_designs >= 1
    /\ filter_log.num_designs < Len(results)
    /\ ENABLED filter_designs

\* the index i of the key "design_i"
KeyIndex(k) == CHOOSE i \in 0..(design_num - 1) : k = "design_" \o ToString(i)

\* C4: the logged count is the length of the id list, the rate is that count
\* over design_num, the ids are keys design_0 .. design_(design_num-1) in
\* increasing index order (so each at most once), and the count is at most
\* design_num.
C4_FilterOutput ==
    lastOp = "filter_designs" =>
        LET ids == filter_log.design_id
        IN /\ filter_log.logged
           /\ filter_log.num_designs = Len(ids)
           /\ filter_log.rate = <<Len(ids), design_num>>
           /\ \A a \in 1..Len(ids) :
                 \E i \in 0..(design_num - 1) : ids[a] = "design_" \o ToString(i)
           /\ \A a, b \in 1..Len(ids) : a < b => KeyIndex(ids[a]) < KeyIndex(ids[b])
           /\ filter_log.num_designs <= design_num

\* A run that selected two designs.
C4_Witness ==
    /\ lastOp = "filter_designs"
    /\ filter_log.num_designs >= 2
    /\ filter_log.design_id[1] = "design_0"
    /\ filter_log.design_id[2] = "design_1"

(***************************************************************************)
(* The methods of one Structure_Prediction object, called in any order by  *)
(* a caller that survives their exceptions.  What the external tools print *)
(* and write, and which operations fail, is drawn in the initial state.    *)
(***************************************************************************)
MaxLines == 3

\* metrics that pass the filter, metrics that fail it, and a dict that lacks
\* pae_interaction
PassingMetrics == [plddt_binder |-> PlddtMin + 1, pae_interaction |-> PaeMax - 1,
                   binder_aligned_rmsd |-> RmsdMax - 1]
FailingMetrics == [plddt_binder |-> PlddtMin, pae_interaction |-> PaeMax,
                   binder_aligned_rmsd |-> RmsdMax]
PartialMetrics == [plddt_binder |-> PlddtMin + 1, binder_aligned_rmsd |-> RmsdMax - 1]

\* The lines of predictor output: plain text; a line naming the structure
\* <pdb>_design_<i>_dldesign_0_cycle1, in which the pattern matches design_<i>
\* and then the design_0 inside dldesign_0 (design_<MaxDesigns> names no
\* record); metric dict lines; a dict line that itself holds an id; a line
\* eval cannot read.
StdoutLines ==
    {TextLine(<<>>)}
    \cup {TextLine(<<DesignKey(i), "design_0">>) : i \in 0..MaxDesigns}
    \cup {DictLine(<<>>, d) : d \in {PassingMetrics, FailingMetrics, PartialMetrics}}
    \cup {DictLine(<<"design_1">>, PassingMetrics), BadDictLine}

Stdouts == UNION {[1..n -> StdoutLines] : n \in 0..MaxLines}

\* one design with passing metrics
PlainStdout == <<TextLine(<<"design_0", "design_0">>), DictLine(<<>>, PassingMetrics)>>

MaxFileLines == 3

TOTAL_SCORE == <<"t", "o", "t", "a", "l", "_", "s", "c", "o", "r", "e">>
RMSD == <<"r", "m", "s", "d">>
Ten == <<"1", "0">>
Zero == <<"0">>
MinusFortyFive == <<"-", "4", "5">>
MinusFortyPointZero == <<"-", "4", "0", ".", "0">>
Word == <<"x">>

\* The lines of a score file: a header with and one without the ddg column;
\* data lines with a ddg of -45, with a ddg of -40.0 and no rmsd, without a
\* third column, and with a word in the ddg column; a blank line; a
\* SEQUENCE: line and a REMARK: line.
ScoreLines ==
    {<<SCORE, TOTAL_SCORE, DDG, RMSD>>,
     <<SCORE, TOTAL_SCORE, RMSD>>,
     <<SCORE, Ten, MinusFortyFive, Zero>>,
     <<SCORE, Ten, MinusFortyPointZero>>,
     <<SCORE, Ten>>,
     <<SCORE, Ten, Word>>,
     <<>>,
     <<SEQUENCE, Word>>,
     <<REMARK, Ten, Zero>>}

ScoreFiles ==
    {NoScoreFile}
    \cup {[exists |-> TRUE, lines |-> f] :
             f \in UNION {[1..n -> ScoreLines] : n \in 0..MaxFileLines}}

\* the file of the specification's example, with -45 for -45.2
PlainScoreFile ==
    [exists |-> TRUE,
     lines |-> <<<<SCORE, TOTAL_SCORE, DDG, RMSD>>, <<SCORE, Ten, MinusFortyFive, Zero>>>>]

\* a new object, nothing run yet, no score file or PDB left by an earlier run
Constructed ==
    /\ design_num \in 0..MaxDesigns
    /\ results = results_dict(design_num)
    /\ lastOp = "init"
    /\ exc = None
    /\ tool = "none"
    /\ invoked = {}
    /\ running = {}
    /\ filter_log = NoLog
    /\ score_exists = FALSE
    /\ pdb_exists = FALSE
    /\ index = 0
    /\ ddg_value = <<>>

NextCalls ==
    \/ pc = "caller" /\ af2_initial_guess /\ UNCHANGED pc
    \/ \E idx \in 0..MaxDesigns : pc = "caller" /\ ddg(idx) /\ UNCHANGED pc
    \/ pc = "caller" /\ filter_designs /\ UNCHANGED pc

\* SpecParse: the predictor stage and the filter on every predictor output,
\* no operation failing
InitParse ==
    /\ Constructed
    /\ temp_exists = FALSE
    /\ pc = "caller"
    /\ stdout \in Stdouts
    /\ score_out = PlainScoreFile
    /\ faults = {}

NextParse ==
    \/ pc = "caller" /\ af2_initial_guess /\ UNCHANGED pc
    \/ pc = "caller" /\ filter_designs /\ UNCHANGED pc

SpecParse == InitParse /\ [][NextParse]_vars

\* SpecScore: every method on every score file, no operation failing
InitScore ==
    /\ Constructed
    /\ temp_exists = FALSE
    /\ pc = "caller"
    /\ stdout = PlainStdout
    /\ score_out \in ScoreFiles
    /\ faults = {}

SpecScore == InitScore /\ [][NextCalls]_vars

MaxFaults == 2

\* SpecRecords: every method of the object, on predictor outputs with and
\* without an id line and with the id of a design that was not requested, on
\* a present and an absent score file, with calls that fail
\* a metric line with no id line before it
OrphanStdout == <<DictLine(<<>>, PassingMetrics)>>

\* the id of a design that was not requested, after one that was
StrayStdout ==
    <<TextLine(<<"design_0">>), DictLine(<<>>, FailingMetrics),
      TextLine(<<DesignKey(MaxDesigns)>>), DictLine(<<>>, PassingMetrics)>>

CallFaults ==
    {<<"af2_initial_guess", op>> : op \in {"isdir", "copytree", "subprocess"}}
    \cup {<<"ddg", op>> : op \in {"subprocess", "timeout", "remove_score"}}

InitRecords ==
    /\ Constructed
    /\ temp_exists = FALSE
    /\ pc = "caller"
    /\ stdout \in {PlainStdout, OrphanStdout, StrayStdout}
    /\ score_out \in {PlainScoreFile, NoScoreFile}
    /\ faults \in {f \in SUBSET CallFaults : Cardinality(f) <= MaxFaults}

SpecRecords == InitRecords /\ [][NextCalls]_vars

(***************************************************************************)
(* Spec: the __main__ block.  The stages run in program order; an          *)
(* exception that leaves a stage ends the run.  The block of stage 4, the  *)
(* loop over ddg(index), is optional: the run either takes it or goes      *)
(* straight to the filter.  The Structure_Prediction object is built with  *)
(* the initial state, its constructor touching nothing else.               *)
(***************************************************************************)
Stages == {"backbone_gen", "sequence_design", "af2_initial_guess", "ddg"}

AllFaults ==
    {<<st, "isdir">> : st \in Stages}
    \cup {<<"backbone_gen", op>> : op \in {"docker", "wait", "nonzero"}}
    \cup {<<st, op>> : st \in {"sequence_design", "af2_initial_guess"},
                        op \in {"rmtree", "copytree", "subprocess"}}
    \cup {<<"ddg", op>> : op \in {"subprocess", "timeout", "remove_score", "remove_pdb"}}

Init ==
    /\ Constructed
    /\ pc = "backbone_gen"
    /\ temp_exists \in BOOLEAN
    /\ stdout \in {PlainStdout, OrphanStdout}
    /\ score_out \in {PlainScoreFile, NoScoreFile}
    /\ faults \in {f \in SUBSET AllFaults : Cardinality(f) <= MaxFaults}

\* what follows a stage: the next statement, or the end of the run when an
\* exception left the stage
After(e, next) == IF e = None THEN next ELSE "terminated"

Main_backbone_gen ==
    /\ pc = "backbone_gen"
    /\ backbone_gen
    /\ pc' = After(exc', "sequence_design")

Main_sequence_design ==
    /\ pc = "sequence_design"
    /\ sequence_design
    /\ pc' = After(exc', "af2_initial_guess")

Main_af2_initial_guess ==
    /\ pc = "af2_initial_guess"
    /\ af2_initial_guess
    /\ pc' = After(exc', "scoring")

\* for index in range(design_num): folded_protein.ddg(index)
Main_ddg ==
    LET next == IF lastOp = "ddg" THEN index + 1 ELSE 0
    IN /\ pc = "scoring"
       /\ next < design_num
       /\ ddg(next)
       /\ pc' = After(exc', "scoring")

Main_filter_designs ==
    /\ pc = "scoring"
    /\ lastOp = "ddg" => index + 1 >= design_num
    /\ filter_designs
    /\ pc' = After(exc', "done")

Next ==
    \/ Main_backbone_gen
    \/ Main_sequence_design
    \/ Main_af2_initial_guess
    \/ Main_ddg
    \/ Main_filter_designs

Spec == Init /\ [][Next]_vars

(***************************************************************************)
(* Claims about the stdout parser of af2_initial_guess, under SpecParse.   *)
(***************************************************************************)
\* the largest element of a non-empty set of numbers
Max(S) == CHOOSE x \in S : \A y \in S : y <= x

\* the id lines among the first k lines of out
IdLines(out, k) == {j \in 1..k : out[j].ids # <<>>}

\* the design id of the last id line at or above line k, as the line's first
\* match; <<>> when there is none
CurrentId(out, k) ==
    IF IdLines(out, k) = {} THEN <<>> ELSE <<out[Max(IdLines(out, k))].ids[1]>>

\* line k cannot be processed: eval fails, a metric is missing, no id line
\* came before it, or its id names no record of res
LineFails(out, k, res) ==
    \/ out[k].kind = "bad"
    \/ /\ out[k].kind = "dict"
       /\ \/ ~(RequiredMetrics \subseteq DOMAIN out[k].val)
          \/ CurrentId(out, k) = <<>>
          \/ ~HasKey(res, CurrentId(out, k)[1])

\* the first line that cannot be processed, Len(out) + 1 when all can
FirstFailure(out, res) ==
    IF \E k \in 1..Len(out) : LineFails(out, k, res)
    THEN CHOOSE k \in 1..Len(out) :
             LineFails(out, k, res) /\ \A j \in 1..(k - 1) : ~LineFails(out, j, res)
    ELSE Len(out) + 1

\* the metric lines before line f that belong to the record with key d
MetricLinesOf(out, f, d) ==
    {k \in 1..(f - 1) : out[k].kind = "dict" /\ CurrentId(out, k) = <<d>>}

\* record r with the three metrics of dict m written over it
WithMetrics(r, m) ==
    [x \in DOMAIN r \cup RequiredMetrics |-> IF x \in RequiredMetrics THEN m[x] ELSE r[x]]

\* C5: when the predictor's stdout is parsed, every record holds afterwards the
\* three metrics of the last metric line whose most recent id line (at or above
\* it) names that record, and a record that no metric line belongs to is left
\* as it was.  This covers every metric line before the first line that cannot
\* be processed; the record that line addresses is left out of the statement.
C5_MetricsToCurrentId ==
    [][(lastOp' = "af2_initial_guess" /\ tool' = "ok") =>
          LET f == FirstFailure(stdout, results)
              hit == IF f <= Len(stdout) /\ stdout[f].kind = "dict"
                     THEN CurrentId(stdout, f) ELSE <<>>
          IN /\ Len(results') = Len(results)
             /\ (exc' = None <=> f = Len(stdout) + 1)
             /\ \A i \in 1..Len(results) :
                   LET d == results[i].key
                       mine == MetricLinesOf(stdout, f, d)
                   IN /\ results'[i].key = d
                      /\ (hit # <<d>> =>
                            results'[i].val =
                                IF mine = {} THEN results[i].val
                                ELSE WithMetrics(results[i].val, stdout[Max(mine)].val))
      ]_vars

\* A run parsed stdout in which two metric lines with different values follow
\* an id line naming two ids; the record of the line's first id holds the
\* values of the later metric line and the record of its second id is empty.
C5_Witness ==
    /\ lastOp = "af2_initial_guess"
    /\ tool = "ok"
    /\ exc = None
    /\ Len(stdout) = 3
    /\ stdout[1].ids = <<"design_1", "design_0">>
    /\ stdout[2] = DictLine(<<>>, PassingMetrics)
    /\ stdout[3] = DictLine(<<>>, FailingMetrics)
    /\ GetItem(results, "design_1") = FailingMetrics
    /\ GetItem(results, "design_0") = EmptyDict

\* the first metric line of out comes before every id line
MetricBeforeAnyId(out) ==
    \E k \in 1..Len(out) :
        /\ out[k].kind = "dict"
        /\ RequiredMetrics \subseteq DOMAIN out[k].val
        /\ \A j \in 1..k : out[j].ids = <<>>
        /\ \A j \in 1..(k - 1) : out[j].kind = "text"

\* C6: when a metric line comes before any id line, af2_initial_guess
\* populates no record and returns normally.
C6_MetricBeforeIdSilent ==
    [][(lastOp' = "af2_initial_guess" /\ tool' = "ok" /\ MetricBeforeAnyId(stdout)) =>
          (results' = results /\ exc' = None)]_vars

(***************************************************************************)
(* Claims about the score-file parser and ddg, under SpecScore.            *)
(***************************************************************************)
Min(S) == CHOOSE x \in S : \A y \in S : x <= y

\* the lines that start with SCORE:
HeaderLines(lines) == {i \in 1..Len(lines) : line_startswith(lines[i], SCORE)}

\* the lines after line h that are not blank and start with neither SEQUENCE:
\* nor REMARK:
DataLines(lines, h) ==
    {j \in (h + 1)..Len(lines) :
        /\ lines[j] # <<>>
        /\ lines[j][1] # SEQUENCE
        /\ lines[j][1] # REMARK}

\* the positions of the token ddg in a line
DdgColumns(line) == {c \in 1..Len(line) : line[c] = DDG}

\* the numbers that the numeric tokens of the input alphabet write
TokenValue(tok) ==
    CASE tok = MinusFortyFive -> <<-45>>
      [] tok = MinusFortyPointZero -> <<-40>>
      [] tok = Ten -> <<10>>
      [] tok = Zero -> <<0>>
      [] OTHER -> <<>>

\* what is wrong with a score file, "" when nothing is
Defect(lines) ==
    IF HeaderLines(lines) = {} THEN "no header"
    ELSE LET h == Min(HeaderLines(lines))
         IN IF DataLines(lines, h) = {} THEN "no data line"
            ELSE LET d == Max(DataLines(lines, h))
                 IN IF DdgColumns(lines[h]) = {} THEN "no column"
                    ELSE LET c == Min(DdgColumns(lines[h]))
                         IN IF Len(lines[d]) < c THEN "short data line"
                            ELSE IF TokenValue(lines[d][c]) = <<>> THEN "not a number"
                            ELSE ""

\* the token a well-formed score file holds in the ddg column of its data line
DdgToken(lines) ==
    LET h == Min(HeaderLines(lines))
    IN lines[Max(DataLines(lines, h))][Min(DdgColumns(lines[h]))]

\* C7: on a well-formed score file ddg takes the first SCORE: line as header,
\* the last line after it that is neither blank nor a SEQUENCE: or REMARK:
\* line as data line, and yields the number written by the data line's token
\* at the position the token ddg has in the header.
C7_ScoreParse ==
    (/\ lastOp = "ddg"
     /\ tool = "ok"
     /\ score_out.exists
     /\ Defect(score_out.lines) = "") =>
        ddg_value = TokenValue(DdgToken(score_out.lines))

\* ddg read the file of the example, and one in which a REMARK: line follows
\* the data line and a blank line precedes the header.
C7_Witness ==
    /\ lastOp = "ddg"
    /\ tool = "ok"
    /\ score_out.lines = <<<<SCORE, TOTAL_SCORE, DDG, RMSD>>,
                           <<SCORE, Ten, MinusFortyFive, Zero>>,
                           <<REMARK, Ten, Zero>>>>
    /\ ddg_value = <<-45>>

\* C8: when the score file has no header, no data line after the header, no
\* ddg column, a data line too short for the column, or a token there that is
\* no number, ddg ends with no value, raises nothing and changes no record.
C8_ScoreParseFailure ==
    [][(/\ lastOp' = "ddg"
        /\ tool' = "ok"
        /\ score_out.exists
        /\ Defect(score_out.lines) # "") =>
           (ddg_value' = <<>> /\ exc' = None /\ results' = results)]_vars

\* ddg read a score file whose header has no ddg column, on an object whose
\* record design_0 holds metrics.
C8_Witness ==
    /\ lastOp = "ddg"
    /\ tool = "ok"
    /\ score_out.lines = <<<<SCORE, TOTAL_SCORE, RMSD>>, <<SCORE, Ten, MinusFortyFive, Zero>>>>
    /\ ddg_value = <<>>
    /\ exc = None
    /\ Len(results) >= 1
    /\ DOMAIN results[1].val = RequiredMetrics

\* C9: when ddg(index) ran the scorer and parsed a value, the record
\* design_<index> has gained a ddg field with that value and nothing else of
\* self.results has changed.
C9_DdgRecorded ==
    [][(/\ lastOp' = "ddg"
        /\ tool' = "ok"
        /\ ddg_value' # <<>>
        /\ index' < design_num) =>
           /\ exc' = None
           /\ results' = SetField(results, DesignKey(index'), "ddg", ddg_value'[1])]_vars

(***************************************************************************)
(* Claims about the stage wrappers, under Spec.                            *)
(***************************************************************************)
\* the place of a method in the program order of the __main__ block
Rank(op) ==
    CASE op = "init" -> 0
      [] op = "backbone_gen" -> 1
      [] op = "sequence_design" -> 2
      [] op = "af2_initial_guess" -> 3
      [] op = "ddg" -> 4
      [] op = "filter_designs" -> 5

\* stage st has run, or is the one that ran last
Entered(st) == Rank(lastOp) >= Rank(st)

\* stage st found no input directory: its tool was not started, it was the
\* last stage to run and the run is over
StoppedAt(st) ==
    /\ st \notin invoked
    /\ lastOp = st
    /\ pc = "terminated"

\* C10 as stated: each of the four stage wrappers, entered while its input
\* directory does not exist, ends the run without starting its tool.
C10_EveryStageChecksInput ==
    \A st \in Stages : (Entered(st) /\ <<st, "isdir">> \in faults) => StoppedAt(st)

\* C10 amended: the wrappers of stages 2 and 3, sequence_design and
\* af2_initial_guess, entered while their input directory does not exist, end
\* the run without starting their tool.
C10_StagingStagesCheckInput ==
    \A st \in {"sequence_design", "af2_initial_guess"} :
        (Entered(st) /\ <<st, "isdir">> \in faults) => StoppedAt(st)

\* The run ended in af2_initial_guess with SystemExit because its input
\* directory was missing, after the first two stages had run their tools.
C10_Witness ==
    /\ <<"af2_initial_guess", "isdir">> \in faults
    /\ lastOp = "af2_initial_guess"
    /\ exc = "SystemExit"
    /\ pc = "terminated"
    /\ invoked = {"backbone_gen", "sequence_design"}

(***************************************************************************)
(* Claims about failures of the external tools and about the order of the  *)
(* stages, under Spec.                                                     *)
(***************************************************************************)
\* the external process of the stage that ran last raised or exited non-zero
ToolFailed == lastOp \in Stages /\ tool \in {"failed", "timeout", "detached"}

\* C11: in each of the four stage wrappers, once the external invocation has
\* raised or exited non-zero the run is over: no later stage, the filter
\* included, is executed and the tool is not started again.
C11_ToolFailureEndsRun == ToolFailed => pc = "terminated"

\* C12: whenever sequence_design or af2_initial_guess has ended and no
\* removal of the scratch directory failed, the scratch directory does not
\* exist, whatever way the stage ended (a failed copy included).
C12_ScratchRemoved ==
    \A st \in {"sequence_design", "af2_initial_guess"} :
        (lastOp = st /\ <<st, "rmtree">> \notin faults) => ~temp_exists

\* the step starts the external process of a stage
StartsTool == lastOp' \in Stages /\ tool' # "none"

\* C13: the stages run in program order; an external process is started
\* only when no earlier one is still running, so at most one runs at any
\* time; the filter runs only once the predictor has been run and has
\* exited.
C13_StrictOrder ==
    [][/\ Rank(lastOp') >= Rank(lastOp)
       /\ StartsTool => running = {}
       /\ Cardinality(running') <= 1
       /\ lastOp' = "filter_designs" =>
              /\ "af2_initial_guess" \in invoked
              /\ running = {}]_vars

(***************************************************************************)
(* Claims about the set of design records, under SpecRecords.              *)
(***************************************************************************)
\* C14: the records are those made at construction, one for each index of
\* 0..design_num-1 and empty then; no call of af2_initial_guess, ddg or
\* filter_designs, failing or not, deletes a record or makes another one.
C14_RecordSetFixed ==
    /\ Len(results) = design_num
    /\ \A i \in 1..Len(results) : results[i].key = DesignKey(i - 1)
    /\ lastOp = "init" => \A i \in 1..Len(results) : results[i].val = EmptyDict

\* The predictor named design_<MaxDesigns>, which has no record, after it
\* had filled the record of design_0; the call ended with an exception.
C14_Witness ==
    /\ stdout = StrayStdout
    /\ design_num >= 1
    /\ lastOp = "af2_initial_guess"
    /\ tool = "ok"
    /\ exc # None
    /\ DOMAIN results[1].val # {}

(***************************************************************************)
(* Claims about the scorer's files and its timeout, under Spec.            *)
(***************************************************************************)
\* C15: when ddg has extracted a ddg value, the score file is gone unless
\* its own removal failed and the output PDB is gone unless its own removal
\* failed, whether or not the other removal failed; no failed removal ends
\* the call: it ends as the recording of the value ends it.
C15_CleanupAfterScore ==
    [][(lastOp' = "ddg" /\ tool' = "ok" /\ ddg_value' # <<>>) =>
          /\ <<"ddg", "remove_score">> \notin faults => ~score_exists'
          /\ <<"ddg", "remove_pdb">> \notin faults => ~pdb_exists'
          /\ exc' \in {None, "KeyError"}]_vars

\* ddg extracted a value, the removal of the score file failed and the PDB
\* was removed all the same.
C15_Witness ==
    /\ lastOp = "ddg"
    /\ tool = "ok"
    /\ ddg_value # <<>>
    /\ <<"ddg", "remove_score">> \in faults
    /\ <<"ddg", "remove_pdb">> \notin faults
    /\ score_exists
    /\ ~pdb_exists

\* C16: a call of ddg whose subprocess ran into the timeout parses and
\* removes no file, records no ddg value, changes no record and returns, as
\* a call whose subprocess exited non-zero does.
C16_TimeoutIsFailure ==
    [][(lastOp' = "ddg" /\ tool' \in {"timeout", "failed"}) =>
          /\ ddg_value' = <<>>
          /\ results' = results
          /\ score_exists' = score_exists
          /\ pdb_exists' = pdb_exists
          /\ exc' = None]_vars

\* The scorer timed out on every design of a run whose scorer would have
\* left a well-formed score file, and the loop went on to the second design.
C16_Witness ==
    /\ lastOp = "ddg"
    /\ tool = "timeout"
    /\ index = 1
    /\ score_out = PlainScoreFile
    /\ ddg_value = <<>>
    /\ \A i \in 1..Len(results) : "ddg" \notin DOMAIN results[i].val

====
